---------------------------- MODULE Spec2Model ----------------------------
(***************************************************************************)
(* Banyc/session: SessionLayer (src/session.rs), a key -> (handle, last    *)
(* access instant) registry with a periodic sweep, and MutSessionLayer     *)
(* (src/mut_session.rs), which stores Arc<tokio Mutex<payload>> handles in *)
(* a SessionLayer and hands out owned guards.                              *)
(*                                                                         *)
(* Time is a discrete monotonic clock (Instant::now() reads `clock`).      *)
(* A session handle is the identity of one Arc<TokioMutex<_>> allocation.  *)
(***************************************************************************)
EXTENDS Integers, Sequences, FiniteSets

\* ------------------------------------------------------------ bounds
MaxTime == 4
MaxLocks == 3
MaxVal == 1

Keys == {"a", "b"}
Tasks == {"t1", "t2"}
Locks == 1..MaxLocks
Vals == 0..MaxVal

\* ------------------------------------------------------------ program constants
\* SessionLayer.timeout, in clock units (a quarter of the timeout is one unit)
timeout == 4

\* (mutant) the sweep task sleeps twice the timeout between sweeps
check_doubled == timeout * 2

\* let check = timeout.div_f64(2.0)
check == timeout \div 2

NoSession == 0
NoKey == "-"
NoEntry == [session |-> NoSession, time |-> 0]
Swept == -1

VARIABLES
    clock,            \* the monotonic clock Instant::now() reads
    key_to_session,   \* SessionLayer.key_to_session: key -> (handle, Mutex<Instant>)
    readers,          \* tasks holding key_to_session's read lock
    owner,            \* strong references to the SessionLayer held by its users
    swpc,             \* the sweep task: "sleep", "retain" or "done"
    now,              \* remove_outdated's local `now`
    wake,             \* the instant the sweep task's sleep(check) completes
    pc,               \* each task's position in get_mut
    key,              \* get_mut's argument, kept while its future or guard lives
    sess,             \* the Arc<TokioMutex<_>> a task holds (clone, future or guard)
    mutex,            \* heap of TokioMutex allocations: payload, permit, wait queue
    inserted          \* history: per key the handle of its last successful insert,
                      \* Swept once a sweep removed the entry

vars == <<clock, key_to_session, readers, owner, swpc, now, wake,
          pc, key, sess, mutex, inserted>>

\* ------------------------------------------------------------ std / tokio primitives
\* (mutant) Instant subtraction that wraps around instead of saturating
InstantSubWrapping(a, b) == IF a >= b THEN a - b ELSE a - b + 65536

\* Instant - Instant: duration_since, which saturates to zero when the
\* right-hand instant is the later one (std since Rust 1.60)
InstantSub(a, b) == IF a >= b THEN a - b ELSE 0

\* (mutant) the lock is built around a default payload, not the caller's
TokioMutexNewDefault(v) == [value |-> 0, locked |-> FALSE, waiters |-> <<>>]

\* TokioMutex::new(mut_session): unlocked, no waiters
TokioMutexNew(v) == [value |-> v, locked |-> FALSE, waiters |-> <<>>]

\* a freed allocation slot
Freed == [value |-> 0, locked |-> FALSE, waiters |-> <<>>]

Present(m, k) == m[k] # NoEntry

\* (mutant) only the map's reference keeps a session alive
LiveInMap(m, s, l) == \E k \in Keys : m[k].session = l

\* an Arc allocation is live while the map or a task refers to it
Live(m, s, l) == (\E k \in Keys : m[k].session = l) \/ (\E t \in Tasks : s[t] = l)

\* dropping the last Arc frees the TokioMutex
Release(mx, m, s) == [l \in Locks |-> IF Live(m, s, l) THEN mx[l] ELSE Freed]

\* Arc::new: the allocation a new session gets
FreeLocks == {l \in Locks : ~Live(key_to_session, sess, l)}
FreshLock == CHOOSE l \in FreeLocks : \A l2 \in FreeLocks : l <= l2

\* (mutant) a dropped or woken waiter stays in the wait queue
RemoveAtKeep(s, t) == s

\* the wait queue of the tokio Mutex without waiter t

RemoveAt(s, t) == SelectSeq(s, LAMBDA x : x # t)

\* ------------------------------------------------------------ SessionLayer
\* (mutant) the age is compared with the sweep period instead of the timeout
RetainedByCheck(n, e) == InstantSub(n, e.time) < check

\* (mutant) the boundary now - *time = timeout is kept
RetainedInclusive(n, e) == InstantSub(n, e.time) <= timeout

\* the retain closure of remove_outdated: keep iff now - *time < self.timeout
Retained(n, e) == InstantSub(n, e.time) < timeout

\* (mutant) the retain closure writes the sweep's instant through the
\* &mut Instant it holds
remove_outdated_refresh(m, n) ==
    [k \in Keys |-> IF Present(m, k) /\ Retained(n, m[k])
                    THEN [m[k] EXCEPT !.time = n]
                    ELSE NoEntry]

\* key_to_session.retain(...)
remove_outdated(m, n) ==
    [k \in Keys |-> IF Present(m, k) /\ Retained(n, m[k]) THEN m[k] ELSE NoEntry]

\* Result<(), SessionCollision<SH>>: Err(SessionCollision(session)) carries the
\* rejected handle
Ok == [tag |-> "Ok", h |-> NoSession]
Err(s) == [tag |-> "Err", h |-> s]

\* (mutant) HashMap::insert without the presence check: the entry is replaced
SessionLayer_insert_overwrite(m, k, s, n) ==
    [map |-> [m EXCEPT ![k] = [session |-> s, time |-> n]],
     result |-> IF m[k] # NoEntry THEN Err(s) ELSE Ok]

\* (mutant) the collision error carries the stored handle, not the rejected one
SessionLayer_insert_stored(m, k, s, n) ==
    IF m[k] # NoEntry
    THEN [map |-> m, result |-> Err(m[k].session)]
    ELSE [map |-> [m EXCEPT ![k] = [session |-> s, time |-> n]],
          result |-> Ok]

\* SessionLayer::insert under the write lock: the new map and the result
SessionLayer_insert(m, k, s, n) ==
    IF Present(m, k)
    THEN [map |-> m, result |-> Err(s)]
    ELSE [map |-> [m EXCEPT ![k] = [session |-> s, time |-> n]],
          result |-> Ok]

\* (mutant) a hit returns the handle without refreshing the timestamp
TouchNever(m, k, n) == m

\* (mutant) a hit refreshes every stored entry
TouchAll(m, k, n) ==
    [k2 \in Keys |-> IF Present(m, k2) THEN [m[k2] EXCEPT !.time = n] ELSE m[k2]]

\* *time = Instant::now() in SessionLayer::get
Touch(m, k, n) == [m EXCEPT ![k].time = n]

\* Session::clone: Arc::clone of the stored handle
SessionClone(s) == s

\* Option<SH>
None == [tag |-> "None", h |-> NoSession]
Some(s) == [tag |-> "Some", h |-> s]

\* (mutant) the lookup ignores the key and returns any stored handle
SessionLayer_get_any(m, k) ==
    IF \E k2 \in Keys : m[k2] # NoEntry
    THEN Some(m[CHOOSE k2 \in Keys : m[k2] # NoEntry].session)
    ELSE None

\* the value SessionLayer::get returns for key k of map m
SessionLayer_get(m, k) == IF Present(m, k) THEN Some(SessionClone(m[k].session)) ELSE None

\* use of a SessionLayer needs a strong reference
Alive == owner > 0

\* (mutant) the sweep task captures a strong Arc: it always has the registry
UpgradeStrong == TRUE

\* weak_this.upgrade() by the sleeping sweep task: Some iff a strong reference exists
Upgrade == owner > 0

\* the strong references to the SessionLayer: the users' and, while it runs
\* remove_outdated, the sweep task's upgraded one
StrongCount == owner + (IF swpc = "retain" THEN 1 ELSE 0)

\* (mutant) the read guard outlives get: it is still held across the await
ReadUnlockLeak(rs, t) == rs

\* the RwLockReadGuard of get is dropped when get returns
ReadUnlock(rs, t) == rs \ {t}

\* the history after the map changed from m to m2 by a sweep or a drop
Forget(m, m2, live) ==
    [k \in Keys |-> IF Present(m, k) /\ ~Present(m2, k)
                    THEN (IF live THEN Swept ELSE NoSession)
                    ELSE IF live THEN inserted[k] ELSE NoSession]

Init ==
    /\ clock = 0
    /\ key_to_session = [k \in Keys |-> NoEntry]
    /\ readers = {}
    /\ owner = 1
    /\ swpc = "sleep"
    /\ now = 0
    /\ wake = check
    /\ pc = [t \in Tasks |-> "idle"]
    /\ key = [t \in Tasks |-> NoKey]
    /\ sess = [t \in Tasks |-> NoSession]
    /\ mutex = [l \in Locks |-> Freed]
    /\ inserted = [k \in Keys |-> NoSession]

\* time passes, up to the horizon h
TickTo(h) ==
    /\ clock < h
    /\ clock' = clock + 1
    /\ UNCHANGED <<key_to_session, readers, owner, swpc, now, wake,
                   pc, key, sess, mutex, inserted>>

\* time passes; the sweep task may be late (sleep lasts at least `check`)
Tick == TickTo(MaxTime)

\* the on-schedule clock: time does not pass while the sweep task is due or
\* running, so every sweep happens exactly when its sleep(check) completes;
\* the horizon is one sleep period longer
SchedTick ==
    /\ ~(swpc = "sleep" /\ clock >= wake)
    /\ swpc # "retain"
    /\ TickTo(MaxTime + check)

\* Err(MutSessionCollision): the error of MutSessionLayer::insert carries
\* nothing
MutSessionCollision == [tag |-> "MutSessionCollision", h |-> NoSession]

\* .map_err(|_| MutSessionCollision)
map_err(r) == IF r.tag = "Err" THEN MutSessionCollision ELSE r

\* what MutSessionLayer::insert returns for the handle s it wrapped
MutSessionLayer_insert_result(m, k, s, n) == map_err(SessionLayer_insert(m, k, s, n).result)

\* (mutant) on a collision the new payload is written into the stored session
MutSessionLayer_insert_replace(t, k, v) ==
    /\ pc[t] = "idle" /\ Alive
    /\ readers = {}
    /\ FreeLocks # {}
    /\ LET s == FreshLock
           r == SessionLayer_insert(key_to_session, k, s, clock)
       IN  /\ key_to_session' = r.map
           /\ mutex' = IF r.result = Ok
                       THEN Release([mutex EXCEPT ![s] = TokioMutexNew(v)], r.map, sess)
                       ELSE [mutex EXCEPT ![key_to_session[k].session].value = v]
           /\ inserted' = IF r.result = Ok THEN [inserted EXCEPT ![k] = s] ELSE inserted
    /\ UNCHANGED <<clock, readers, owner, swpc, now, wake, pc, key, sess>>

\* MutSessionLayer::insert(key, mut_session): wrap the payload in a new
\* Arc<TokioMutex<_>>, SessionLayer::insert it under the map's write lock;
\* on a collision the wrapped payload is dropped with the error
MutSessionLayer_insert(t, k, v) ==
    /\ pc[t] = "idle" /\ Alive
    /\ readers = {}
    /\ FreeLocks # {}
    /\ LET s == FreshLock
           r == SessionLayer_insert(key_to_session, k, s, clock)
       IN  /\ key_to_session' = r.map
           /\ mutex' = Release([mutex EXCEPT ![s] = TokioMutexNew(v)], r.map, sess)
           /\ inserted' = IF r.result = Ok THEN [inserted EXCEPT ![k] = s] ELSE inserted
    /\ UNCHANGED <<clock, readers, owner, swpc, now, wake, pc, key, sess>>

\* SessionLayer::get, lines 63-64: take the read lock and look the key up.
\* A miss returns None through `?` (and with it get_mut returns None): the
\* read lock is released at once and no state changes, so a miss is a
\* stuttering step; what it returns is SessionLayer_get(key_to_session, k)
get_lookup(t, k) ==
    /\ pc[t] = "idle" /\ Alive
    /\ SessionLayer_get(key_to_session, k).tag = "Some"
    /\ readers' = readers \cup {t}
    /\ pc' = [pc EXCEPT ![t] = "touch"]
    /\ key' = [key EXCEPT ![t] = k]
    /\ UNCHANGED <<clock, key_to_session, owner, swpc, now, wake, sess, mutex, inserted>>

\* SessionLayer::get, lines 65-67: under the entry's timestamp lock store
\* Instant::now(), clone the handle, release both locks and return Some
get_touch(t) ==
    /\ pc[t] = "touch"
    /\ key_to_session' = Touch(key_to_session, key[t], clock)
    /\ sess' = [sess EXCEPT ![t] = SessionLayer_get(key_to_session, key[t]).h]
    /\ readers' = ReadUnlock(readers, t)
    /\ pc' = [pc EXCEPT ![t] = "lock"]
    /\ UNCHANGED <<clock, owner, swpc, now, wake, key, mutex, inserted>>

\* (mutant) a queued waiter is never handed the permit
CanAcquireEmptyQueue(mx, t) == ~mx.locked /\ mx.waiters = <<>>

\* (mutant) the guard is built without waiting for the permit
CanAcquireUnlocked(mx, t) == mx.waiters = <<>> \/ Head(mx.waiters) = t

\* the permit of a tokio Mutex can be taken by t: it is free, and the wait
\* queue is empty or t is at its head
CanAcquire(mx, t) == ~mx.locked /\ (mx.waiters = <<>> \/ Head(mx.waiters) = t)

\* get_mut line 34, first poll of lock_owned(): take the permit, or queue up
lock_owned_poll(t) ==
    /\ pc[t] = "lock"
    /\ LET l == sess[t] IN
        IF CanAcquire(mutex[l], t)
        THEN /\ mutex' = [mutex EXCEPT ![l].locked = TRUE]
             /\ pc' = [pc EXCEPT ![t] = "guard"]
        ELSE /\ mutex' = [mutex EXCEPT ![l].waiters = Append(@, t)]
             /\ pc' = [pc EXCEPT ![t] = "await"]
    /\ UNCHANGED <<clock, key_to_session, readers, owner, swpc, now, wake,
                   key, sess, inserted>>

\* get_mut line 34, the await completes: the head waiter takes the permit
lock_owned_ready(t) ==
    /\ pc[t] = "await"
    /\ LET l == sess[t] IN
        /\ CanAcquire(mutex[l], t)
        /\ mutex' = [mutex EXCEPT ![l].locked = TRUE, ![l].waiters = RemoveAt(@, t)]
    /\ pc' = [pc EXCEPT ![t] = "guard"]
    /\ UNCHANGED <<clock, key_to_session, readers, owner, swpc, now, wake,
                   key, sess, inserted>>

\* the get_mut future is dropped while awaiting the lock
cancel(t) ==
    /\ pc[t] = "await"
    /\ pc' = [pc EXCEPT ![t] = "idle"]
    /\ sess' = [sess EXCEPT ![t] = NoSession]
    /\ key' = [key EXCEPT ![t] = NoKey]
    /\ mutex' = Release([mutex EXCEPT ![sess[t]].waiters = RemoveAt(@, t)],
                        key_to_session, sess')
    /\ UNCHANGED <<clock, key_to_session, readers, owner, swpc, now, wake, inserted>>

\* write through the guard (DerefMut of OwnedMutexGuard)
guard_write(t, v) ==
    /\ pc[t] = "guard"
    /\ mutex[sess[t]].value # v
    /\ mutex' = [mutex EXCEPT ![sess[t]].value = v]
    /\ UNCHANGED <<clock, key_to_session, readers, owner, swpc, now, wake,
                   pc, key, sess, inserted>>

\* the guard is dropped: the permit is returned, the guard's Arc is dropped
guard_drop(t) ==
    /\ pc[t] = "guard"
    /\ pc' = [pc EXCEPT ![t] = "idle"]
    /\ sess' = [sess EXCEPT ![t] = NoSession]
    /\ key' = [key EXCEPT ![t] = NoKey]
    /\ mutex' = Release([mutex EXCEPT ![sess[t]].locked = FALSE], key_to_session, sess')
    /\ UNCHANGED <<clock, key_to_session, readers, owner, swpc, now, wake, inserted>>

\* the sweep task wakes from sleep(check): weak_this.upgrade()?, then
\* remove_outdated reads Instant::now()
sweep_wake ==
    /\ swpc = "sleep"
    /\ clock >= wake
    /\ IF Upgrade
       THEN swpc' = "retain" /\ now' = clock
       ELSE swpc' = "done" /\ now' = now
    /\ UNCHANGED <<clock, key_to_session, readers, owner, wake, pc, key, sess, mutex,
                   inserted>>

\* what is left of the map when a strong reference is dropped: everything,
\* unless it was the last one
DropStrong(m, others) == IF others > 0 THEN m ELSE [k \in Keys |-> NoEntry]

\* (mutant) the sweep takes the lock of every stored session before it
\* decides, so it waits for every guard holder
sweep_retain_locking ==
    /\ swpc = "retain"
    /\ readers = {}
    /\ \A k \in Keys :
            Present(key_to_session, k) => ~mutex[key_to_session[k].session].locked
    /\ key_to_session' = DropStrong(remove_outdated(key_to_session, now), owner)
    /\ mutex' = Release(mutex, key_to_session', sess)
    /\ swpc' = "sleep"
    /\ wake' = clock + check
    /\ now' = 0
    /\ inserted' = Forget(key_to_session, key_to_session', owner > 0)
    /\ UNCHANGED <<clock, readers, owner, pc, key, sess>>

\* remove_outdated takes the write lock and retains; the upgraded Arc is
\* dropped at the end of the loop body and the task sleeps again
sweep_retain ==
    /\ swpc = "retain"
    /\ readers = {}
    /\ key_to_session' = DropStrong(remove_outdated(key_to_session, now), owner)
    /\ mutex' = Release(mutex, key_to_session', sess)
    /\ swpc' = "sleep"
    /\ wake' = clock + check
    /\ now' = 0
    /\ inserted' = Forget(key_to_session, key_to_session', owner > 0)
    /\ UNCHANGED <<clock, readers, owner, pc, key, sess>>

\* the MutSessionLayer (the one strong reference held by users) is dropped; no
\* call that borrows it is in progress
drop_layer ==
    /\ owner > 0
    /\ \A t \in Tasks : pc[t] \in {"idle", "guard"}
    /\ owner' = owner - 1
    /\ key_to_session' = DropStrong(key_to_session, StrongCount - 1)
    /\ mutex' = Release(mutex, key_to_session', sess)
    /\ inserted' = Forget(key_to_session, key_to_session', StrongCount > 1)
    /\ UNCHANGED <<clock, readers, swpc, now, wake, pc, key, sess>>

Program ==
    \/ \E t \in Tasks, k \in Keys, v \in Vals : MutSessionLayer_insert(t, k, v)
    \/ \E t \in Tasks, k \in Keys : get_lookup(t, k)
    \/ \E t \in Tasks : get_touch(t)
    \/ \E t \in Tasks : lock_owned_poll(t)
    \/ \E t \in Tasks : lock_owned_ready(t)
    \/ \E t \in Tasks : cancel(t)
    \/ \E t \in Tasks, v \in Vals : guard_write(t, v)
    \/ \E t \in Tasks : guard_drop(t)
    \/ sweep_wake
    \/ sweep_retain
    \/ drop_layer

Next == Tick \/ Program

Spec == Init /\ [][Next]_vars

\* the sweep task runs exactly on its schedule
SchedNext == SchedTick \/ Program

SchedSpec == Init /\ [][SchedNext]_vars

\* the next step of task t inside get_mut or with its guard: the synchronous
\* rest of get, the first poll of lock_owned(), the wake-up of the waiter the
\* permit was handed to, the drop of the guard (its pc enables one at most)
Proceed(t) ==
    \/ get_touch(t)
    \/ lock_owned_poll(t)
    \/ lock_owned_ready(t)
    \/ guard_drop(t)

\* scheduling: the tokio runtime polls every task that can go on, and every
\* guard holder drops its guard
Fairness == \A t \in Tasks : WF_vars(Proceed(t))

FairSpec == Spec /\ Fairness
\* ------------------------------------------------------------ claims

\* C1 as stated: at most one live guard per key at any time; two tasks never
\* hold guards obtained by get_mut calls on the same key at once
C1_OneGuardPerKey ==
    \A t1, t2 \in Tasks :
        (t1 # t2 /\ pc[t1] = "guard" /\ pc[t2] = "guard") => key[t1] # key[t2]

\* C1 amended: at most one live guard per session (lock instance) at any
\* time, and a session with a live guard is locked; two guards for one key
\* coexist only on different sessions (the key was swept and inserted again)
C1_OneGuardPerSession ==
    \A l \in Locks :
        LET holders == {t \in Tasks : pc[t] = "guard" /\ sess[t] = l} IN
            /\ Cardinality(holders) <= 1
            /\ holders # {} => mutex[l].locked

\* C1 witness: a task holds the guard of a session while another task's
\* get_mut on the same key waits for the same session
C1_Witness ==
    \E t1, t2 \in Tasks :
        /\ pc[t1] = "guard" /\ pc[t2] = "await"
        /\ sess[t1] = sess[t2] /\ key[t1] = key[t2]

\* C2: an insert on a present key fails and leaves the whole map unchanged:
\* the key keeps its handle (a following get returns it) and its timestamp,
\* and no other entry is added, removed or changed
C2_InsertNeverOverwrites ==
    /\ [](\A k \in Keys, s \in Locks :
            Present(key_to_session, k) =>
                LET r == SessionLayer_insert(key_to_session, k, s, clock) IN
                    /\ r.result.tag = "Err"
                    /\ r.map = key_to_session
                    /\ SessionLayer_get(r.map, k) = Some(key_to_session[k].session))
    /\ [][\A t \in Tasks, k \in Keys, v \in Vals :
            (Present(key_to_session, k) /\ key_to_session' # key_to_session)
                => ~MutSessionLayer_insert(t, k, v)]_vars

\* C2 witness: both keys are registered, one with a timestamp in the past,
\* and a task can call insert on it
C2_Witness ==
    /\ \A k \in Keys : Present(key_to_session, k)
    /\ \E k \in Keys : key_to_session[k].time < clock
    /\ Alive /\ readers = {} /\ FreeLocks # {}
    /\ \E t \in Tasks : pc[t] = "idle"

\* C3: an insert on a present key fails with a collision carrying exactly the
\* handle passed to that call; an insert on an absent key succeeds and stores
\* that handle with the current instant
C3_CollisionCarriesRejected ==
    \A k \in Keys, s \in Locks :
        LET r == SessionLayer_insert(key_to_session, k, s, clock) IN
            IF Present(key_to_session, k)
            THEN r.result = Err(s)
            ELSE /\ r.result = Ok
                 /\ r.map[k] = [session |-> s, time |-> clock]

\* C3 witness: a key is registered, the other is not (the first insert
\* happened), and a second insert with a new handle can be called
C3_Witness ==
    /\ \E k \in Keys : Present(key_to_session, k) /\ key_to_session[k].session \notin FreeLocks
    /\ \E k \in Keys : ~Present(key_to_session, k)
    /\ Alive /\ readers = {} /\ FreeLocks # {}
    /\ \E t \in Tasks : pc[t] = "idle"

\* C4: while a key inserted with handle h has not been swept, get on it
\* returns Some(clone of h): never None, never another key's handle, and the
\* task leaving get holds exactly h
C4_GetReturnsInserted ==
    /\ [](\A k \in Keys :
            inserted[k] \in Locks =>
                SessionLayer_get(key_to_session, k) = Some(inserted[k]))
    /\ [][\A t \in Tasks :
            (pc[t] = "touch" /\ pc'[t] = "lock") =>
                /\ inserted[key[t]] \in Locks
                /\ sess'[t] = inserted[key[t]]]_vars

\* C4 witness: both keys were inserted (with different handles) and a task
\* has just returned from get on one of them
C4_Witness ==
    /\ \A k \in Keys : inserted[k] \in Locks
    /\ \E t \in Tasks : pc[t] = "lock" /\ sess[t] = inserted[key[t]]

\* C5: while the registry lives, an entry disappears only in a sweep, and
\* only when at least timeout has passed since its last access; an entry
\* whose timestamp is later than the sweep's `now` is kept
C5_TouchedNeverExpires ==
    [][\A k \in Keys :
        (Present(key_to_session, k) /\ ~Present(key_to_session', k) /\ StrongCount' > 0)
            => /\ swpc = "retain"
               /\ clock - key_to_session[k].time >= timeout
               /\ key_to_session[k].time <= now]_vars

\* C5 witness: a get touched an entry after the sweep read `now` and before
\* the sweep took the write lock
C5_Witness ==
    /\ swpc = "retain" /\ readers = {}
    /\ \E k \in Keys : Present(key_to_session, k) /\ key_to_session[k].time > now

\* C6: a sweep removes every entry with now - last_access >= timeout; a swept
\* key stays absent, so get returns None, until it is inserted again
C6_ExpiredIsAbsent ==
    /\ [](\A k \in Keys :
            inserted[k] = Swept => SessionLayer_get(key_to_session, k) = None)
    /\ [][/\ (swpc = "retain" /\ swpc' = "sleep") =>
                \A k \in Keys :
                    (Present(key_to_session, k) /\ now - key_to_session[k].time >= timeout)
                        => /\ ~Present(key_to_session', k)
                           /\ inserted'[k] \in {Swept, NoSession}
          /\ \A k \in Keys :
                (~Present(key_to_session, k) /\ Present(key_to_session', k))
                    => \E t \in Tasks, v \in Vals : MutSessionLayer_insert(t, k, v)]_vars

\* C6 witness: a key was swept and the registry is alive with a task free to
\* call get on it
C6_Witness ==
    /\ Alive
    /\ \E k \in Keys : inserted[k] = Swept
    /\ \E t \in Tasks : pc[t] = "idle"

C8_MutationsPersist ==
    [][/\ \A t \in Tasks, k \in Keys, v \in Vals :
            (/\ ~Present(key_to_session, k) /\ Present(key_to_session', k)
             /\ MutSessionLayer_insert(t, k, v))
                => mutex'[key_to_session'[k].session].value = v
       /\ \A l \in Locks :
            (/\ Live(key_to_session, sess, l)
             /\ Live(key_to_session', sess', l)
             /\ mutex'[l].value # mutex[l].value)
                => \E t \in Tasks : /\ pc[t] = "guard" /\ sess[t] = l
                                    /\ pc'[t] = "guard" /\ sess'[t] = l
       /\ \A k \in Keys :
            (Present(key_to_session, k) /\ Present(key_to_session', k))
                => key_to_session'[k].session = key_to_session[k].session]_vars

\* C8 witness: a task holds the guard of a registered session whose payload
\* is not the default, while the other task is not using that session
C8_Witness ==
    \E t \in Tasks, k \in Keys :
        /\ pc[t] = "guard" /\ key[t] = k
        /\ key_to_session[k].session = sess[t]
        /\ mutex[sess[t]].value = MaxVal
        /\ \A t2 \in Tasks \ {t} : sess[t2] # sess[t]

\* C9: only a task inside get holds the map's read lock, so a task waiting
\* for or holding a session lock blocks no get, insert or sweep; and a
\* get_mut is kept waiting only by a holder or an earlier waiter of the same
\* session
C9_DifferentKeysIndependent ==
    /\ readers = {t \in Tasks : pc[t] = "touch"}
    /\ \A t \in Tasks :
        (pc[t] \in {"lock", "await"} /\ ~CanAcquire(mutex[sess[t]], t))
            => \E t2 \in Tasks \ {t} :
                    sess[t2] = sess[t] /\ pc[t2] \in {"await", "guard"}

\* C9 witness: guards of two different registered keys are held at once
C9_Witness ==
    \E t1, t2 \in Tasks :
        /\ pc[t1] = "guard" /\ pc[t2] = "guard"
        /\ key[t1] # key[t2] /\ sess[t1] # sess[t2]
        /\ key_to_session[key[t1]].session = sess[t1]
        /\ key_to_session[key[t2]].session = sess[t2]

\* C10: the registry is reclaimed as soon as no strong reference is left;
\* from then on no sweep runs and the sweep task's next wake-up ends it; the
\* task ends only when no strong reference is left
C10_SweepTaskEnds ==
    /\ [](swpc = "done" => owner = 0)
    /\ [](StrongCount = 0 => \A k \in Keys : ~Present(key_to_session, k))
    /\ [][/\ StrongCount = 0 =>
                (swpc' # "retain" /\ key_to_session' = key_to_session)
          /\ (swpc = "sleep" /\ swpc' # "sleep" /\ StrongCount = 0) => swpc' = "done"
          /\ (swpc # "done" /\ swpc' = "done") => StrongCount = 0]_vars

\* C10 witness: the sweep task has terminated
C10_Witness == swpc = "done"

\* C11: dropping a get_mut that is still waiting for the session lock takes
\* nothing with it: the task leaves the wait queue, the lock's state and
\* payload and every other waiter are as before, and the map (with the
\* timestamp the lookup wrote before the wait began) is unchanged; no wait
\* queue ever names a task that is not waiting, no lock is held without a
\* guard, and a task at or past the lock has released the map's read lock
C11_CancelSafe ==
    /\ [](\A l \in Locks :
            /\ \A i \in 1..Len(mutex[l].waiters) :
                    /\ pc[mutex[l].waiters[i]] = "await"
                    /\ sess[mutex[l].waiters[i]] = l
            /\ mutex[l].locked => \E t \in Tasks : pc[t] = "guard" /\ sess[t] = l)
    /\ [](\A t \in Tasks : pc[t] \in {"lock", "await", "guard"} => t \notin readers)
    /\ [][\A t \in Tasks :
            (pc[t] = "await" /\ pc'[t] = "idle") =>
                /\ key_to_session' = key_to_session
                /\ readers' = readers
                /\ \A t2 \in Tasks \ {t} : pc'[t2] = pc[t2] /\ sess'[t2] = sess[t2]
                /\ \A l \in Locks :
                    Live(key_to_session', sess', l) =>
                        /\ mutex'[l].locked = mutex[l].locked
                        /\ mutex'[l].value = mutex[l].value
                        /\ mutex'[l].waiters =
                                SelectSeq(mutex[l].waiters, LAMBDA x : x # t)]_vars

\* C11 witness: a task waits behind a held guard, the timestamp its lookup
\* wrote is in the map of the key it looked up, and it can be dropped now
C11_Witness ==
    \E t1, t2 \in Tasks :
        /\ pc[t1] = "guard" /\ pc[t2] = "await" /\ sess[t1] = sess[t2]
        /\ mutex[sess[t2]].waiters = <<t2>>
        /\ key_to_session[key[t2]].session = sess[t2]
        /\ key_to_session[key[t2]].time = clock /\ clock > 0
        /\ t2 \notin readers

\* C12: under fair scheduling, with every guard eventually dropped, a get_mut
\* that found its key present eventually returns a guard, unless its future
\* is dropped while it waits (the only way back to idle without a guard)
C12_GetMutReturns ==
    \A t \in Tasks :
        (pc[t] \in {"touch", "lock", "await"}) ~> (pc[t] \in {"guard", "idle"})

\* C12 witness: the holder has dropped its guard while a task was waiting, so
\* the permit is now the waiter's to take
C12_Witness ==
    \E t \in Tasks :
        /\ pc[t] = "await"
        /\ ~mutex[sess[t]].locked
        /\ mutex[sess[t]].waiters = <<t>>
        /\ \A t2 \in Tasks \ {t} : pc[t2] = "idle"

\* C13: MutSessionLayer::insert on a present key returns MutSessionCollision
\* and changes nothing at all (no step that changes the map, a stored lock,
\* its payload, its lock state or waiters, or a task is such an insert), so
\* the rejected payload can never be seen; on
\* an absent key it returns Ok and stores the payload in a new, unlocked
\* session with no waiter
C13_MutInsertCollision ==
    /\ [](\A k \in Keys, s \in FreeLocks :
            MutSessionLayer_insert_result(key_to_session, k, s, clock) =
                IF Present(key_to_session, k) THEN MutSessionCollision ELSE Ok)
    /\ [][(pc' = pc /\ clock' = clock /\ swpc' = swpc /\ owner' = owner) =>
            \A k \in Keys :
                Present(key_to_session, k) =>
                    \A t \in Tasks, v \in Vals : ~MutSessionLayer_insert(t, k, v)]_vars
    /\ [][\A k \in Keys :
            (~Present(key_to_session, k) /\ Present(key_to_session', k)) =>
                \A t \in Tasks, v \in Vals :
                    MutSessionLayer_insert(t, k, v) =>
                        /\ mutex'[key_to_session'[k].session] =
                                [value |-> v, locked |-> FALSE, waiters |-> <<>>]
                        /\ ~Live(key_to_session, sess, key_to_session'[k].session)
                        /\ SessionLayer_get(key_to_session', k) =
                                Some(key_to_session'[k].session)]_vars

\* C13 witness: a key is present, its payload is not the default and its
\* guard is held, and the other task is idle and can call insert on that key
C13_Witness ==
    \E t, t1 \in Tasks, k \in Keys :
        /\ pc[t1] = "guard"
        /\ key_to_session[k].session = sess[t1]
        /\ mutex[sess[t1]].value = MaxVal
        /\ ENABLED MutSessionLayer_insert(t, k, 0)

\* C14: a sweep of a registry that stays alive removes exactly the entries
\* whose age at the instant the sweep read at its start is at least the
\* timeout, and keeps every other entry, handle and timestamp unchanged; an
\* entry touched after that instant is kept (its age counts as 0); the
\* instant is the clock at the sweep's wake-up
C14_SweepExact ==
    /\ [](swpc = "retain" => now <= clock)
    /\ [][/\ (swpc = "sleep" /\ swpc' = "retain") => now' = clock
          /\ (swpc = "retain" /\ swpc' = "sleep" /\ StrongCount' > 0) =>
                \A k \in Keys :
                    key_to_session'[k] =
                        IF /\ Present(key_to_session, k)
                           /\ \/ key_to_session[k].time > now
                              \/ now - key_to_session[k].time < timeout
                        THEN key_to_session[k]
                        ELSE NoEntry]_vars

\* C14 witness: a sweep has just ended (its next wake-up is a full period
\* away); it removed a key whose age had reached the timeout and kept the
\* other one, which was last touched at the instant of the sweep
C14_Witness ==
    /\ swpc = "sleep" /\ wake = clock + check /\ Alive
    /\ \E k1, k2 \in Keys :
        /\ inserted[k1] = Swept /\ ~Present(key_to_session, k1)
        /\ Present(key_to_session, k2)
        /\ key_to_session[k2].time = clock
        /\ clock = timeout

\* C15: no operation waits in a cycle.  The map's read lock is held only
\* inside get, whose holder can always finish; a sweep that has woken up, an
\* insert and a lookup wait for nothing but the map lock, whatever session
\* locks are held or awaited; and a task waiting for a session lock waits for
\* a guard holder, who can always drop the guard, or for the head waiter, who
\* can take the free permit
C15_NoDeadlock ==
    /\ \A t \in readers : pc[t] = "touch" /\ ENABLED get_touch(t)
    /\ (swpc = "retain" /\ readers = {}) => ENABLED sweep_retain
    /\ \A t \in Tasks, k \in Keys :
        (pc[t] = "idle" /\ Alive) =>
            /\ Present(key_to_session, k) => ENABLED get_lookup(t, k)
            /\ (readers = {} /\ FreeLocks # {}) => ENABLED MutSessionLayer_insert(t, k, 0)
    /\ \A l \in Locks :
        mutex[l].waiters # <<>> =>
            IF mutex[l].locked
            THEN \E t \in Tasks : pc[t] = "guard" /\ sess[t] = l /\ ENABLED guard_drop(t)
            ELSE ENABLED lock_owned_ready(Head(mutex[l].waiters))

\* C15 witness: a sweep has just ended and removed a key while one task holds
\* the guard of that key's session and the other waits for it
C15_Witness ==
    /\ swpc = "sleep" /\ wake = clock + check /\ Alive
    /\ \E t1, t2 \in Tasks, k \in Keys :
        /\ pc[t1] = "guard" /\ pc[t2] = "await"
        /\ sess[t1] = sess[t2] /\ key[t1] = k /\ key[t2] = k
        /\ inserted[k] = Swept

\* C16: while an entry exists its last-access timestamp never decreases,
\* under any interleaving of gets on the same key with each other, with
\* inserts and with sweeps; it is never later than the clock
C16_TimestampMonotone ==
    /\ [](\A k \in Keys : Present(key_to_session, k) => key_to_session[k].time <= clock)
    /\ [][\A k \in Keys :
            (Present(key_to_session, k) /\ Present(key_to_session', k))
                => key_to_session'[k].time >= key_to_session[k].time]_vars

\* C16 witness: two gets on the same key have both written its timestamp,
\* the last one at the current clock, and a sweep that read an earlier
\* instant is still to run on that entry
C16_Witness ==
    \E t1, t2 \in Tasks, k \in Keys :
        /\ t1 # t2 /\ key[t1] = k /\ key[t2] = k
        /\ pc[t1] = "lock" /\ pc[t2] = "lock"
        /\ key_to_session[k].session = sess[t1]
        /\ key_to_session[k].time = clock
        /\ swpc = "retain" /\ now < clock

\* C17: while the registry is alive a key is present exactly if it was
\* inserted and not swept since.  A key appears only by a successful insert
\* of that key, which changes no other entry; a key disappears only by a
\* sweep and only if its age has reached the timeout; a stored handle is
\* never replaced; a timestamp changes only by a get hit on that key, which
\* changes no other entry; every other step of a task (lookup, lock wait,
\* guard, drop, cancellation) leaves the map as it is
C17_KeySetChanges ==
    /\ [](\A k \in Keys : Present(key_to_session, k) <=> inserted[k] \in Locks)
    /\ [][/\ \A k \in Keys :
                (~Present(key_to_session, k) /\ Present(key_to_session', k)) =>
                    /\ \E t \in Tasks, v \in Vals : MutSessionLayer_insert(t, k, v)
                    /\ \A k2 \in Keys \ {k} : key_to_session'[k2] = key_to_session[k2]
          /\ \A k \in Keys :
                (/\ Present(key_to_session, k) /\ ~Present(key_to_session', k)
                 /\ StrongCount' > 0) =>
                    /\ swpc = "retain" /\ swpc' = "sleep"
                    /\ now - key_to_session[k].time >= timeout
          /\ \A k \in Keys :
                (Present(key_to_session, k) /\ Present(key_to_session', k)) =>
                    /\ key_to_session'[k].session = key_to_session[k].session
                    /\ key_to_session'[k].time # key_to_session[k].time =>
                        /\ \E t \in Tasks :
                                pc[t] = "touch" /\ pc'[t] = "lock" /\ key[t] = k
                        /\ \A k2 \in Keys \ {k} :
                                key_to_session'[k2] = key_to_session[k2]
          /\ \A t \in Tasks :
                (pc'[t] # pc[t] /\ pc[t] # "touch") =>
                    key_to_session' = key_to_session]_vars

\* C17 witness: a get hit has just refreshed one key while the other key is
\* stored with an older timestamp
C17_Witness ==
    \E t \in Tasks, k, k2 \in Keys :
        /\ pc[t] = "lock" /\ key[t] = k /\ k2 # k
        /\ key_to_session[k].session = sess[t]
        /\ key_to_session[k].time = clock
        /\ Present(key_to_session, k2)
        /\ key_to_session[k2].time < clock

\* a get has returned the handle stored under k and that handle is still in
\* use, so the timestamp of the entry is the touch of the latest get on it
GotHandle(k) ==
    /\ Present(key_to_session, k)
    /\ \E t \in Tasks :
            pc[t] \in {"lock", "await", "guard"} /\ sess[t] = key_to_session[k].session

\* the sweep's retain step in a registry that stays alive
SweepStep == swpc = "retain" /\ swpc' = "sleep" /\ StrongCount' > 0

\* C18 as stated: after a get has refreshed an entry, a sweep whose clock read
\* is not more than the timeout after that touch retains the entry
C18_RetainedUpToTimeout ==
    [][\A k \in Keys :
        (/\ SweepStep /\ GotHandle(k)
         /\ \/ key_to_session[k].time > now
            \/ now - key_to_session[k].time <= timeout)
            => Present(key_to_session', k)]_vars

\* C18 (amended): a get that takes the map lock first returns the stored
\* handle and sets the timestamp to its own clock read, and a sweep whose
\* clock read is less than the timeout after that touch (or before it)
\* retains the entry unchanged, while one whose clock read is the timeout or
\* more after it removes the entry; once a sweep has removed the entry a
\* get returns None; an entry is never removed while a get holds the read
\* lock, and the entry a get looked up is there until the get releases it
C18_GetSweepRace ==
    /\ [](\A t \in Tasks :
            pc[t] = "touch" => (t \in readers /\ Present(key_to_session, key[t])))
    /\ [][/\ \A t \in Tasks :
                (pc[t] = "touch" /\ pc'[t] = "lock") =>
                    /\ Some(sess'[t]) = SessionLayer_get(key_to_session, key[t])
                    /\ key_to_session'[key[t]] =
                            [session |-> sess'[t], time |-> clock]
          /\ \A k \in Keys :
                (SweepStep /\ GotHandle(k)) =>
                    key_to_session'[k] =
                        IF \/ key_to_session[k].time > now
                           \/ now - key_to_session[k].time < timeout
                        THEN key_to_session[k]
                        ELSE NoEntry
          /\ \A k \in Keys :
                (Present(key_to_session, k) /\ ~Present(key_to_session', k)) =>
                    /\ readers = {}
                    /\ SessionLayer_get(key_to_session', k) = None]_vars

\* C18 witness: the race is on: the sweep has read its clock and, by it, the
\* entry is past the timeout, but a get has taken the map's read lock first
\* and is about to refresh that entry
C18_Witness ==
    /\ swpc = "retain"
    /\ \E t \in Tasks :
        /\ pc[t] = "touch" /\ t \in readers
        /\ now - key_to_session[key[t]].time >= timeout

\* no key of the map refers to session l
Unregistered(l) == \A k \in Keys : key_to_session[k].session # l

\* C19: a sweep removes an expired key whatever the state of its session
\* lock, and changes no session that is still referred to: the lock, its
\* holder, its wait queue and its payload are as before, so a held guard stays
\* exclusive; under fair scheduling every task already waiting for the lock
\* of a session that is no longer registered still gets its guard, on that
\* same session (unless its future is dropped); and a get of the swept key
\* misses until the key is inserted again
C19_RemovedWhileLocked ==
    /\ [](\A l \in Locks :
            LET holders == {t \in Tasks : pc[t] = "guard" /\ sess[t] = l}
            IN  Unregistered(l) =>
                    /\ Cardinality(holders) <= 1
                    /\ mutex[l].locked <=> holders # {})
    /\ [](\A k \in Keys, t \in Tasks :
            inserted[k] = Swept =>
                /\ SessionLayer_get(key_to_session, k) = None
                /\ ~ENABLED get_lookup(t, k))
    /\ [][/\ (swpc = "retain" /\ swpc' = "sleep") =>
                /\ pc' = pc /\ sess' = sess
                /\ \A l \in Locks :
                        Live(key_to_session', sess', l) => mutex'[l] = mutex[l]
          /\ \A t \in Tasks :
                (pc[t] = "await" /\ pc'[t] = "guard") =>
                    /\ sess'[t] = sess[t]
                    /\ mutex'[sess[t]].value = mutex[sess[t]].value]_vars
    /\ \A t \in Tasks :
            (pc[t] = "await" /\ Unregistered(sess[t]))
                ~> (pc[t] \in {"guard", "idle"})

\* C19 witness: the key was swept while its session is in use: one task holds
\* the guard of the session, which is no longer registered, with a payload it
\* wrote, and the other task waits for that lock
C19_Witness ==
    \E t1, t2 \in Tasks, k \in Keys :
        /\ pc[t1] = "guard" /\ pc[t2] = "await"
        /\ sess[t1] = sess[t2] /\ key[t1] = k /\ key[t2] = k
        /\ Unregistered(sess[t1])
        /\ inserted[k] = Swept
        /\ mutex[sess[t1]].value = MaxVal
        /\ mutex[sess[t1]].waiters = <<t2>>

\* C20: with the sweep on schedule (every timeout / 2 while the registry is
\* alive), an entry is never removed before its age reaches the timeout, and
\* an entry whose age has reached 1.5 * timeout is only ever seen at the
\* very instant of the sweep that removes it
C20_ExpiryLatency ==
    /\ [](\A k \in Keys :
            (Present(key_to_session, k) /\ 2 * (clock - key_to_session[k].time) >= 3 * timeout)
                => (swpc = "retain" \/ (swpc = "sleep" /\ clock >= wake)))
    /\ [](\A k \in Keys :
            (Present(key_to_session, k) /\ swpc = "sleep" /\ wake = clock + check)
                => clock - key_to_session[k].time < timeout)
    /\ [][\A k \in Keys :
            (/\ Present(key_to_session, k) /\ ~Present(key_to_session', k)
             /\ StrongCount' > 0)
                => /\ clock - key_to_session[k].time >= timeout
                   /\ 2 * (clock - key_to_session[k].time) < 3 * timeout]_vars

\* C20 witness: an entry last touched between two sweeps has outlived its
\* timeout by more than a clock unit (a quarter of the timeout) and the sweep
\* that removes it has just read its clock
C20_Witness ==
    /\ swpc = "retain" /\ now = clock
    /\ \E k \in Keys :
        /\ Present(key_to_session, k)
        /\ clock - key_to_session[k].time = timeout + 1

=============================================================================
